---- MODULE Spec2Model ----
(***************************************************************************)
(* Model of token-counter-cli's budget analysis                             *)
(* (src/token_counter_cli/budget.py).                                       *)
(*                                                                          *)
(* Numbers.  pct_used is a Python float that always holds a value with two  *)
(* decimals (the result of round(x, 2), 0.0 or 999.99); the model keeps it  *)
(* as the integer number of hundredths (0.95 is 95, 999.99 is 99999).       *)
(* reserve_pct is a float given as a decimal literal with two decimals; the *)
(* model keeps its hundredths and reproduces the IEEE-754 double arithmetic *)
(* of `x / y`, `round(., 2)`, `x * y` and `int(.)` with integer arithmetic. *)
(*                                                                          *)
(* Optional[T] is a sequence of length at most one: None is <<>>.           *)
(***************************************************************************)
EXTENDS Integers, Sequences, FiniteSets, TLC

VARIABLES counting_result, model, config, result, raised, pc,
          input_data, tokenizer, calls,
          content_array, extracted,
          requested, pipelines,
          exit_code, stdout, records,
          args, data

\* The counting engine's input, the tokenizer capability it consumes and the
\* calls made to that capability.
countVars == <<input_data, tokenizer, calls>>

\* Argument and result of _extract_text_from_content_array.
extractVars == <<content_array, extracted>>

\* The requested models and the state of each model's pipeline.
pipeVars == <<requested, pipelines>>

\* What main() returns, prints and produces.
mainVars == <<exit_code, stdout, records>>

\* What the program is given to read: the command line (or the arguments of
\* CLIConfig) and the parsed JSON of a messages file.
readVars == <<args, data>>

vars == <<counting_result, model, config, result, raised, pc,
          input_data, tokenizer, calls, content_array, extracted,
          requested, pipelines, exit_code, stdout, records, args, data>>

\* ---------------------------------------------------------------- bounds
\* Largest token count of a CountingResult handed to the analyzer.
MaxInputTokens == 1050

\* ------------------------------------------------------------- Optional
None == <<>>

Some(x) == <<x>>

\* Python truthiness of an Optional[str]: None and "" are both falsy.
Truthy(opt) == opt # None /\ opt[1] # ""

\* ------------------------------------------------- IEEE-754 double helpers
\* p with 2^p <= n/d < 2^(p+1), for n, d > 0: the binary exponent of n/d.
RECURSIVE FloorLog2(_, _)
FloorLog2(n, d) ==
    IF n >= 2 * d THEN FloorLog2(n, 2 * d) + 1
    ELSE IF n < d THEN FloorLog2(2 * n, d) - 1
    ELSE 0

\* f with 2^f < k <= 2^(f+1), for k >= 1: the exponent of the doubles just
\* below the integer k.
RECURSIVE ExpBelow(_, _)
ExpBelow(k, pow) == IF pow < k THEN ExpBelow(k, 2 * pow) + 1 ELSE -1

RECURSIVE Pow2(_)
Pow2(e) == IF e <= 0 THEN 1 ELSE 2 * Pow2(e - 1)

\* (2^e) mod m
RECURSIVE Pow2Mod(_, _)
Pow2Mod(e, m) == IF e <= 0 THEN 1 % m ELSE (2 * Pow2Mod(e - 1, m)) % m

\* Marker for the ZeroDivisionError that `x / 0` raises.
ZeroDivisionError == -1

\* round(t / L, 2) in hundredths, t >= 0.
\* t / L is the double nearest to the quotient and round(., 2) is the
\* two-decimal value nearest to that double.  Unless the quotient is exactly
\* half-way between two hundredths the result is the nearest hundredth.  At
\* an exact half-way point (2k+1)/200 the double decides: it is the quotient
\* itself only if 25 divides 2k+1 (then round-half-even applies); otherwise
\* the 53-bit significand is (2k+1) * 2^(e-3) / 25 rounded to an integer,
\* and the sign of that rounding error says on which side the double lies.
PyRound2HalfUp(t, L) ==
    IF L = 0 THEN ZeroDivisionError ELSE (200 * t + L) \div (2 * L)

PyRound2Floor(t, L) ==
    IF L = 0 THEN ZeroDivisionError ELSE (100 * t) \div L

PyRound2(t, L) ==
    IF L = 0 THEN ZeroDivisionError
    ELSE IF (200 * t + L) % (2 * L) # 0 THEN (200 * t + L) \div (2 * L)
    ELSE LET k == ((200 * t + L) \div (2 * L)) - 1
             o == 2 * k + 1
             e == 52 - FloorLog2(o, 200)
             r == ((o % 25) * Pow2Mod(e - 3, 25)) % 25
         IN  IF r = 0 THEN (IF k % 2 = 0 THEN k ELSE k + 1)
             ELSE IF r >= 13 THEN k + 1
             ELSE k

\* int(L * p) for the double p nearest to pct/100, L >= 0, 0 <= pct <= 100.
\* The product can fall below the exact floor only when L * pct / 100 is an
\* integer K, the double p lies below pct/100 (the residue r0 of
\* pct * 2^e mod 100 is in 1..49), and L * p is more than half an ulp below
\* K, so that the product rounds to the double under K.
PyIntMul(L, pct) ==
    IF L = 0 \/ pct = 0 THEN 0
    ELSE IF (L * pct) % 100 # 0 THEN (L * pct) \div 100
    ELSE LET K  == (L * pct) \div 100
             fp == FloorLog2(pct, 100)
             r0 == ((pct % 100) * Pow2Mod(52 - fp, 100)) % 100
             ex == ExpBelow(K, 1) - fp - 1
         IN  IF r0 = 0 \/ r0 > 50 THEN K
             ELSE IF L * r0 * Pow2(-ex) > 100 * Pow2(ex) THEN K - 1
             ELSE K

\* ------------------------------------------------------------ the analyzer
ErrorExceedsBudget == "error: exceeds budget"

WarningNearLimit == "warning: near limit"

\* The 999.99 cap, in hundredths.
PctCap == 99999

calculate_effective_limit_override(m, cfg) ==
    IF cfg.max_tokens # None THEN cfg.max_tokens[1] ELSE m.context_limit

calculate_effective_limit(m, cfg) ==
    IF cfg.max_tokens # None
    THEN (IF m.context_limit <= cfg.max_tokens[1]
          THEN m.context_limit ELSE cfg.max_tokens[1])
    ELSE m.context_limit

calculate_reserve_default_pct(effective_limit, cfg) ==
    IF cfg.reserve # None
    THEN cfg.reserve[1]
    ELSE PyIntMul(effective_limit, 20)

calculate_reserve_pct_only(effective_limit, cfg) ==
    PyIntMul(effective_limit, cfg.reserve_pct)

calculate_reserve(effective_limit, cfg) ==
    IF cfg.reserve # None
    THEN cfg.reserve[1]
    ELSE PyIntMul(effective_limit, cfg.reserve_pct)

remaining_tokens_no_reserve(effective_limit, reserve, input_tokens) ==
    effective_limit - input_tokens

remaining_tokens(effective_limit, reserve, input_tokens) ==
    effective_limit - reserve - input_tokens

pct_used_unguarded(input_tokens, effective_limit) ==
    PyRound2(input_tokens, effective_limit)

pct_used_half_up(input_tokens, effective_limit) ==
    IF effective_limit = 0
    THEN (IF input_tokens = 0 THEN 0 ELSE PctCap)
    ELSE PyRound2HalfUp(input_tokens, effective_limit)

pct_used(input_tokens, effective_limit) ==
    IF effective_limit = 0
    THEN (IF input_tokens = 0 THEN 0 ELSE PctCap)
    ELSE PyRound2(input_tokens, effective_limit)

\* <<warning, error>>
check_thresholds_pct_only(pct, remaining) ==
    IF pct >= 95 THEN <<None, Some(ErrorExceedsBudget)>>
    ELSE IF pct >= 80 THEN <<Some(WarningNearLimit), None>>
    ELSE <<None, None>>

check_thresholds_strict(pct, remaining) ==
    IF pct > 95 \/ remaining < 0 THEN <<None, Some(ErrorExceedsBudget)>>
    ELSE IF pct > 80 THEN <<Some(WarningNearLimit), None>>
    ELSE <<None, None>>

check_thresholds_no_elif(pct, remaining) ==
    <<IF pct >= 80 THEN Some(WarningNearLimit) ELSE None,
      IF pct >= 95 \/ remaining < 0 THEN Some(ErrorExceedsBudget) ELSE None>>

check_thresholds_warning_band(pct, remaining) ==
    IF pct >= 95 \/ remaining < 0 THEN <<None, Some(ErrorExceedsBudget)>>
    ELSE IF pct >= 80 /\ pct < 90 THEN <<Some(WarningNearLimit), None>>
    ELSE <<None, None>>

check_thresholds(pct, remaining) ==
    IF pct >= 95 \/ remaining < 0 THEN <<None, Some(ErrorExceedsBudget)>>
    ELSE IF pct >= 80 THEN <<Some(WarningNearLimit), None>>
    ELSE <<None, None>>

BudgetAnalyzer_analyze_budget(cr, m, cfg) ==
    IF Truthy(cr.error)
    THEN [model            |-> m.name,
          input_tokens     |-> 0,
          context_limit    |-> m.context_limit,
          effective_limit  |-> m.context_limit,
          reserve          |-> 0,
          remaining_tokens |-> 0,
          pct_used         |-> 0,
          warning          |-> None,
          error            |-> cr.error,
          is_approximate   |-> cr.is_approximate]
    ELSE LET effective_limit == calculate_effective_limit(m, cfg)
             reserve         == calculate_reserve(effective_limit, cfg)
             remaining       == remaining_tokens(effective_limit, reserve,
                                                 cr.input_tokens)
             pct             == pct_used(cr.input_tokens, effective_limit)
             we              == check_thresholds(pct, remaining)
         IN  [model            |-> m.name,
              input_tokens     |-> cr.input_tokens,
              context_limit    |-> m.context_limit,
              effective_limit  |-> effective_limit,
              reserve          |-> reserve,
              remaining_tokens |-> remaining,
              pct_used         |-> pct,
              warning          |-> we[1],
              error            |-> we[2],
              is_approximate   |-> cr.is_approximate]

\* ------------------------------------------------------------------ inputs
\* The registry's models and the models the tests build.
ModelDefinitions ==
    { [name |-> "gpt-4o", context_limit |-> 128000, tokenizer_type |-> "local"],
      [name |-> "claude-3-5-sonnet", context_limit |-> 200000,
       tokenizer_type |-> "provider"],
      [name |-> "gpt-4o", context_limit |-> 1000, tokenizer_type |-> "local"],
      [name |-> "gpt-4o", context_limit |-> 100, tokenizer_type |-> "local"],
      [name |-> "gpt-4o", context_limit |-> 0, tokenizer_type |-> "local"] }

CountingErrors == {None, Some(""), Some("Token counting failed")}

CountingResults ==
    [model : {"gpt-4o", "claude-3-5-sonnet"},
     input_tokens : 0..MaxInputTokens,
     error : CountingErrors,
     is_approximate : BOOLEAN]

\* max_tokens: absent or positive; reserve: absent or non-negative;
\* reserve_pct in [0.0, 1.0], in hundredths.
CLIConfigs ==
    [max_tokens : {None, Some(800), Some(1500)},
     reserve : {None, Some(0), Some(150)},
     reserve_pct : {0, 20, 29, 100}]

\* ------------------------------------------------------------------ system
Init ==
    /\ model \in ModelDefinitions
    /\ counting_result \in {cr \in CountingResults : cr.model = model.name}
    /\ config \in CLIConfigs
    /\ result = None
    /\ raised = None
    /\ args = None
    /\ data = None
    /\ pc = "counted"
    /\ input_data = None
    /\ tokenizer = None
    /\ calls = <<>>
    /\ content_array = None
    /\ extracted = None
    /\ requested = <<>>
    /\ pipelines = <<>>
    /\ exit_code = None
    /\ stdout = <<>>
    /\ records = <<>>

\* budget.analyze_budget(counting_result, model, config)
analyze_budget ==
    /\ pc = "counted"
    /\ LET r == BudgetAnalyzer_analyze_budget(counting_result, model, config)
       IN  IF r.pct_used = ZeroDivisionError
           THEN /\ raised' = Some("ZeroDivisionError")
                /\ result' = result
                /\ pc' = "raised"
           ELSE /\ result' = r
                /\ raised' = raised
                /\ pc' = "analyzed"
    /\ UNCHANGED <<readVars, counting_result, model, config,
                   countVars, extractVars, pipeVars, mainVars>>

Next == analyze_budget

Spec == Init /\ [][Next]_vars

\* ------------------------------------------------------------------ claims
Analyzed == pc = "analyzed"

\* Analyzed from a CountingResult without an error.
AnalyzedNoError == pc = "analyzed" /\ counting_result.error = None

\* C1: for an outcome without an error, error = "error: exceeds budget"
\* (warning absent) iff the rounded pct_used >= 0.95 or remaining_tokens < 0;
\* otherwise warning = "warning: near limit" (error absent) iff
\* pct_used >= 0.80; otherwise both are absent.
C1_Classification ==
    AnalyzedNoError =>
        LET isErr  == result.pct_used >= 95 \/ result.remaining_tokens < 0
            isWarn == ~isErr /\ result.pct_used >= 80
        IN  /\ isErr <=> result.error = Some(ErrorExceedsBudget)
            /\ isErr => result.warning = None
            /\ isWarn <=> result.warning = Some(WarningNearLimit)
            /\ ~isErr => result.error = None
            /\ ~isWarn => result.warning = None

\* An error raised by a negative remainder alone, below the warning threshold.
C1_Witness ==
    /\ AnalyzedNoError
    /\ result.pct_used < 80
    /\ result.remaining_tokens < 0
    /\ result.error = Some(ErrorExceedsBudget)

\* C2: in every BudgetResult (short-circuit path and normal path) warning and
\* error are never both set, and pct_used >= 0.95 has no warning.
C2_NeverBoth ==
    Analyzed =>
        /\ ~(result.warning # None /\ result.error # None)
        /\ result.pct_used >= 95 => result.warning = None

C2_Witness ==
    /\ AnalyzedNoError
    /\ result.pct_used >= 95
    /\ result.error = Some(ErrorExceedsBudget)
    /\ result.warning = None

\* C3 (as claimed): every CountingResult whose error is not None, the empty
\* string included, yields the short-circuit record: input_tokens 0,
\* effective_limit = context_limit, reserve 0, remaining_tokens 0,
\* pct_used 0.0, no warning, the error verbatim, is_approximate copied.
C3_ShortCircuitAnyString ==
    (Analyzed /\ counting_result.error # None) =>
        result = [model            |-> model.name,
                  input_tokens     |-> 0,
                  context_limit    |-> model.context_limit,
                  effective_limit  |-> model.context_limit,
                  reserve          |-> 0,
                  remaining_tokens |-> 0,
                  pct_used         |-> 0,
                  warning          |-> None,
                  error            |-> counting_result.error,
                  is_approximate   |-> counting_result.is_approximate]

\* TRUE when 200 * t is an odd multiple of L: t / L is exactly half-way
\* between two hundredths.
HalfWay(t, L) == (200 * t + L) % (2 * L) = 0

C5_Scenario ==
    /\ model.context_limit = 1000
    /\ config.max_tokens = Some(800)
    /\ config.reserve = None
    /\ config.reserve_pct = 20
    /\ counting_result.input_tokens = 100
    /\ counting_result.error = None

C5_OverrideExample ==
    (Analyzed /\ C5_Scenario) =>
        /\ result.effective_limit = 800
        /\ result.reserve = 160
        /\ result.remaining_tokens = 540
        /\ result.pct_used = 12
        /\ result.warning = None
        /\ result.error = None

C5_Witness == Analyzed /\ C5_Scenario /\ result.input_tokens = 100

\* C6: effective_limit is context_limit without an override and
\* min(context_limit, max_tokens) with one; so effective_limit <= context_limit
\* and an override >= context_limit gives the record that no override gives.
C6_EffectiveLimit ==
    AnalyzedNoError =>
        LET c == model.context_limit
            o == config.max_tokens
        IN  /\ o = None => result.effective_limit = c
            /\ o # None =>
                   /\ result.effective_limit \in {c, o[1]}
                   /\ result.effective_limit <= o[1]
            /\ result.effective_limit <= c
            /\ (o # None /\ o[1] >= c) =>
                   result = BudgetAnalyzer_analyze_budget(
                                counting_result, model,
                                [config EXCEPT !.max_tokens = None])

C6_Witness ==
    /\ AnalyzedNoError
    /\ config.max_tokens = Some(1500)
    /\ model.context_limit = 1000
    /\ result.effective_limit = 1000

\* C7 (as claimed): reserve is config.reserve when present, else the exact
\* floor of effective_limit * reserve_pct.
C7_ReserveExactFloor ==
    AnalyzedNoError =>
        result.reserve =
            IF config.reserve # None THEN config.reserve[1]
            ELSE (result.effective_limit * config.reserve_pct) \div 100

\* C8: remaining_tokens + reserve + input_tokens = effective_limit, with
\* input_tokens copied from the outcome; remaining_tokens is negative exactly
\* when reserve + input_tokens > effective_limit.
C8_Accounting ==
    AnalyzedNoError =>
        /\ result.input_tokens = counting_result.input_tokens
        /\ result.remaining_tokens + result.reserve + result.input_tokens
               = result.effective_limit
        /\ result.remaining_tokens < 0 <=>
               result.reserve + counting_result.input_tokens
                   > result.effective_limit

C8_Witness ==
    /\ AnalyzedNoError
    /\ result.reserve > 0
    /\ result.input_tokens > 0
    /\ result.remaining_tokens < 0

\* C9 (as claimed): with effective_limit 0 and no counting error, 0 tokens
\* give pct_used 0.0 and neither warning nor error; more tokens give 999.99,
\* a negative remainder and the error; no division by zero happens.
C9_ZeroLimit ==
    /\ pc # "raised"
    /\ (AnalyzedNoError /\ result.effective_limit = 0) =>
           /\ result.input_tokens = 0 =>
                  /\ result.pct_used = 0
                  /\ result.warning = None
                  /\ result.error = None
           /\ result.input_tokens > 0 =>
                  /\ result.pct_used = PctCap
                  /\ result.remaining_tokens < 0
                  /\ result.error = Some(ErrorExceedsBudget)

\* C9 (amended): as claimed, except that with 0 tokens the error is absent
\* only when the reserve is 0; an absolute reserve > 0 makes the remainder
\* negative and sets the error.
C9_ZeroLimitReserve ==
    /\ pc # "raised"
    /\ raised = None
    /\ (AnalyzedNoError /\ result.effective_limit = 0) =>
           /\ result.input_tokens = 0 =>
                  /\ result.pct_used = 0
                  /\ result.warning = None
                  /\ result.reserve = 0 => result.error = None
                  /\ result.reserve > 0 =>
                         /\ result.remaining_tokens < 0
                         /\ result.error = Some(ErrorExceedsBudget)
           /\ result.input_tokens > 0 =>
                  /\ result.pct_used = PctCap
                  /\ result.remaining_tokens < 0
                  /\ result.warning = None
                  /\ result.error = Some(ErrorExceedsBudget)

C9_Witness ==
    /\ AnalyzedNoError
    /\ result.effective_limit = 0
    /\ result.input_tokens > 0
    /\ result.pct_used = PctCap

\* C10 (as claimed): every ratio that rounds to 0.80 gets the warning and
\* every ratio that rounds to 0.95 gets the error.
C10_RoundedThreshold ==
    (AnalyzedNoError /\ result.effective_limit > 0) =>
        /\ result.pct_used = 80 => result.warning = Some(WarningNearLimit)
        /\ result.pct_used = 95 => result.error = Some(ErrorExceedsBudget)

\* C10 (amended): a ratio that rounds to 0.80 (also one below 0.80, such as
\* 799/1000) gets the warning when remaining_tokens >= 0 and the error when
\* remaining_tokens < 0; a ratio that rounds to 0.95 (also one below 0.95,
\* such as 949/1000) gets the error.
C10_RoundedThresholdRemaining ==
    (AnalyzedNoError /\ result.effective_limit > 0) =>
        LET t   == counting_result.input_tokens
            L   == result.effective_limit
            r80 == (159 * L < 200 * t /\ 200 * t < 161 * L)
                       \/ result.pct_used = 80
            r95 == (189 * L < 200 * t /\ 200 * t < 191 * L)
                       \/ result.pct_used = 95
        IN  /\ (r80 /\ result.remaining_tokens >= 0) =>
                   /\ result.warning = Some(WarningNearLimit)
                   /\ result.error = None
            /\ (r80 /\ result.remaining_tokens < 0) =>
                   /\ result.warning = None
                   /\ result.error = Some(ErrorExceedsBudget)
            /\ r95 =>
                   /\ result.warning = None
                   /\ result.error = Some(ErrorExceedsBudget)

\* 799/1000: the exact ratio is below 0.80 and the warning is set.
C10_Witness ==
    /\ AnalyzedNoError
    /\ counting_result.input_tokens = 799
    /\ result.effective_limit = 1000
    /\ result.warning = Some(WarningNearLimit)

\* C11 (as claimed): with reserve_pct 1.0 and no absolute reserve, the reserve
\* is the whole effective_limit, remaining_tokens = -input_tokens and is
\* negative, and the record is an error whatever pct_used is.
FullReserve ==
    AnalyzedNoError /\ config.reserve = None /\ config.reserve_pct = 100

C11_FullReserve ==
    FullReserve =>
        /\ result.reserve = result.effective_limit
        /\ result.remaining_tokens = -counting_result.input_tokens
        /\ result.remaining_tokens < 0
        /\ result.error = Some(ErrorExceedsBudget)

\* C11 (amended): as claimed for every input_tokens > 0; with 0 tokens
\* remaining_tokens is 0, not negative, and the record has neither error nor
\* warning.
C11_FullReservePositive ==
    FullReserve =>
        /\ result.reserve = result.effective_limit
        /\ result.remaining_tokens = -counting_result.input_tokens
        /\ counting_result.input_tokens > 0 =>
               /\ result.remaining_tokens < 0
               /\ result.error = Some(ErrorExceedsBudget)
               /\ result.warning = None
        /\ counting_result.input_tokens = 0 =>
               /\ result.remaining_tokens = 0
               /\ result.error = None
               /\ result.warning = None

\* The error of a full reserve at a pct_used far below the thresholds.
C11_Witness ==
    /\ FullReserve
    /\ result.effective_limit = 1000
    /\ result.reserve = 1000
    /\ result.pct_used < 80
    /\ result.error = Some(ErrorExceedsBudget)

\* C12: an absolute reserve with reserve + input_tokens > effective_limit
\* (also with 0 tokens) gives the error and no warning, also when pct_used is
\* below 0.80.
C12_AbsoluteOvershoot ==
    (/\ AnalyzedNoError
     /\ config.reserve # None
     /\ config.reserve[1] + counting_result.input_tokens
            > result.effective_limit) =>
        /\ result.error = Some(ErrorExceedsBudget)
        /\ result.warning = None

\* 0 tokens, the absolute reserve alone above the limit.
C12_Witness ==
    /\ AnalyzedNoError
    /\ config.reserve # None
    /\ counting_result.input_tokens = 0
    /\ config.reserve[1] > result.effective_limit
    /\ result.effective_limit > 0
    /\ result.pct_used < 80
    /\ result.error = Some(ErrorExceedsBudget)

\* The record of the same model and config for a larger token count t.
C30_RecordAt(t) ==
    BudgetAnalyzer_analyze_budget(
        [counting_result EXCEPT !.input_tokens = t], model, config)

\* C30: for a fixed model and config the classification is monotone in the
\* token count: an error stays an error for every larger count, a warning
\* becomes a warning or an error; pct_used does not decrease and
\* remaining_tokens strictly decreases.
C30_Monotone ==
    AnalyzedNoError =>
        \A t \in {counting_result.input_tokens + 1, MaxInputTokens + 1} :
            LET later == C30_RecordAt(t)
            IN  /\ result.error = Some(ErrorExceedsBudget) =>
                       later.error = Some(ErrorExceedsBudget)
                /\ result.warning = Some(WarningNearLimit) =>
                       \/ later.warning = Some(WarningNearLimit)
                       \/ later.error = Some(ErrorExceedsBudget)
                /\ later.pct_used >= result.pct_used
                /\ later.remaining_tokens < result.remaining_tokens
                /\ later.remaining_tokens =
                       result.remaining_tokens
                           - (t - counting_result.input_tokens)

\* A warning that the next token keeps a warning, and one that the next
\* token turns into an error.
C30_Witness ==
    /\ AnalyzedNoError
    /\ result.warning = Some(WarningNearLimit)
    /\ result.pct_used = 94
    /\ result.effective_limit = 100
    /\ C30_RecordAt(counting_result.input_tokens + 1).error
           = Some(ErrorExceedsBudget)
    /\ C30_RecordAt(counting_result.input_tokens + 1).pct_used = 95

(***************************************************************************)
(* The counting engine (src/token_counter_cli/counting.py).                 *)
(*                                                                          *)
(* Text is a string.  A Message is [role, content]; a content is            *)
(* [kind, text, items]: kind "str" carries text, kind "list" carries items, *)
(* kind "other" is any other JSON value (a number, null, an object).  An    *)
(* item of a content list is [type, value]:                                 *)
(*   "str"             the string value                                     *)
(*   "dict_text_str"   a dict whose "text" is the string value              *)
(*   "dict_text_other" a dict whose "text" is not a string (value shows it) *)
(*   "dict_no_text"    a dict without "text", e.g. an image (value: url)    *)
(*   "number"          neither a string nor a dict                          *)
(* InputData.messages is Optional: None, or Some(list of Message).          *)
(*                                                                          *)
(* The tokenizer is the external capability: acquiring it and encoding      *)
(* with it succeed or raise, and an encoding has one token per `merge`      *)
(* characters.                                                              *)
(***************************************************************************)

\* ---------------------------------------------------------------- bounds
\* Longest message list of an InputData.
MaxMessages == 2

\* Longest content list handed to _extract_text_from_content_array.
MaxItems == 3

\* --------------------------------------------------------------- helpers
\* sep.join(parts)
RECURSIVE JoinStr(_, _)
JoinStr(parts, sep) ==
    IF parts = <<>> THEN ""
    ELSE IF Len(parts) = 1 THEN parts[1]
    ELSE parts[1] \o sep \o JoinStr(Tail(parts), sep)

\* All sequences over S of length at most n.
RECURSIVE SeqsUpTo(_, _)
SeqsUpTo(S, n) ==
    IF n = 0 THEN {<<>>}
    ELSE LET shorter == SeqsUpTo(S, n - 1)
         IN  shorter \cup {Append(q, x) : q \in shorter, x \in S}

\* CountingResult(model, input_tokens, error=None, is_approximate=False)
CountingResult(name, n, err, approx) ==
    [model |-> name, input_tokens |-> n, error |-> err,
     is_approximate |-> approx]

\* tiktoken.encoding_for_model("gpt-4o"): the call made and whether it raises.
AcquireCall == [op |-> "encoding_for_model", arg |-> "gpt-4o"]

\* encoding.encode(text): the call made, whether it raises, and len() of it.
EncodeCall(text) == [op |-> "encode", arg |-> text]

EncodeLen(tok, text) == (Len(text) + tok.merge - 1) \div tok.merge

\* ------------------------------------------------------------ TokenCounter
extract_text_any_text_field(content_array_) ==
    JoinStr([i \in 1..Len(SelectSeq(content_array_,
                 LAMBDA item : item.type \in {"str", "dict_text_str",
                                             "dict_text_other"})) |->
                SelectSeq(content_array_,
                    LAMBDA item : item.type \in {"str", "dict_text_str",
                                                "dict_text_other"})[i].value],
            " ")

extract_text_from_content_array(content_array_) ==
    LET kept == SelectSeq(content_array_,
                    LAMBDA item : item.type \in {"str", "dict_text_str"})
    IN  JoinStr([i \in 1..Len(kept) |-> kept[i].value], " ")

\* The text_parts one message appends: its role marker, then its content.
message_text_parts_always_content(message) ==
    <<"<" \o message.role \o ">">> \o
    (IF message.content.kind = "str" THEN <<message.content.text>>
     ELSE IF message.content.kind = "list"
     THEN <<extract_text_from_content_array(message.content.items)>>
     ELSE <<>>)

message_text_parts_skip_empty_str(message) ==
    <<"<" \o message.role \o ">">> \o
    (LET content_text ==
             IF message.content.kind = "str" THEN message.content.text
             ELSE IF message.content.kind = "list"
             THEN extract_text_from_content_array(message.content.items)
             ELSE ""
     IN  IF content_text # "" THEN <<content_text>> ELSE <<>>)

message_text_parts(message) ==
    <<"<" \o message.role \o ">">> \o
    (IF message.content.kind = "str" THEN <<message.content.text>>
     ELSE IF message.content.kind = "list"
     THEN (LET content_text ==
                   extract_text_from_content_array(message.content.items)
           IN  IF content_text # "" THEN <<content_text>> ELSE <<>>)
     ELSE <<>>)

RECURSIVE text_parts(_)
text_parts(messages) ==
    IF messages = <<>> THEN <<>>
    ELSE message_text_parts(Head(messages)) \o text_parts(Tail(messages))

\* The text _count_messages_approximate hands to encoding.encode.
messages_full_text(messages) == JoinStr(text_parts(messages), "\n\n")

\* `input_data.messages is not None`
has_messages_truthy(input) ==
    input.messages # None /\ input.messages[1] # <<>>

has_messages(input) == input.messages # None

\* Results of the counting routines: the CountingResult returned (res), the
\* exception that escapes instead (exc, None when the routine returns) and
\* the tokenizer calls made.
count_gpt4o_tokens_swallow(input, tok) ==
    IF tok.acquire = "raises"
    THEN [res   |-> CountingResult("gpt-4o", 0, None, FALSE),
          exc   |-> None,
          calls |-> <<AcquireCall>>]
    ELSE LET text == IF has_messages(input)
                     THEN messages_full_text(input.messages[1])
                     ELSE input.content
         IN  IF tok.encode = "raises"
             THEN [res   |-> CountingResult("gpt-4o", 0, None,
                                            has_messages(input)),
                   exc   |-> None,
                   calls |-> <<AcquireCall, EncodeCall(text)>>]
             ELSE [res   |-> CountingResult("gpt-4o", EncodeLen(tok, text),
                                            None, has_messages(input)),
                   exc   |-> None,
                   calls |-> <<AcquireCall, EncodeCall(text)>>]

\* Encoding is tried a second time after it raised.
count_gpt4o_tokens_retry(input, tok) ==
    IF tok.acquire = "raises"
    THEN [res   |-> CountingResult("gpt-4o", 0,
                        Some("Failed to load tiktoken encoding: "
                                 \o tok.detail), FALSE),
          exc   |-> None,
          calls |-> <<AcquireCall>>]
    ELSE LET text == IF has_messages(input)
                     THEN messages_full_text(input.messages[1])
                     ELSE input.content
         IN  IF tok.encode = "raises"
             THEN [res   |-> CountingResult("gpt-4o", 0,
                                 Some("Token encoding failed: "
                                          \o tok.detail), FALSE),
                   exc   |-> None,
                   calls |-> <<AcquireCall, EncodeCall(text),
                               EncodeCall(text)>>]
             ELSE [res   |-> CountingResult("gpt-4o", EncodeLen(tok, text),
                                            None, has_messages(input)),
                   exc   |-> None,
                   calls |-> <<AcquireCall, EncodeCall(text)>>]

\* One try block around acquisition and encoding.
count_gpt4o_tokens_one_prefix(input, tok) ==
    IF tok.acquire = "raises"
    THEN [res   |-> CountingResult("gpt-4o", 0,
                        Some("Token encoding failed: " \o tok.detail),
                        FALSE),
          exc   |-> None,
          calls |-> <<AcquireCall>>]
    ELSE LET text == IF has_messages(input)
                     THEN messages_full_text(input.messages[1])
                     ELSE input.content
         IN  IF tok.encode = "raises"
             THEN [res   |-> CountingResult("gpt-4o", 0,
                                 Some("Token encoding failed: "
                                          \o tok.detail), FALSE),
                   exc   |-> None,
                   calls |-> <<AcquireCall, EncodeCall(text)>>]
             ELSE [res   |-> CountingResult("gpt-4o", EncodeLen(tok, text),
                                            None, has_messages(input)),
                   exc   |-> None,
                   calls |-> <<AcquireCall, EncodeCall(text)>>]

count_gpt4o_tokens(input, tok) ==
    IF tok.acquire = "raises"
    THEN [res   |-> CountingResult("gpt-4o", 0,
                        Some("Failed to load tiktoken encoding: "
                                 \o tok.detail), FALSE),
          exc   |-> None,
          calls |-> <<AcquireCall>>]
    ELSE LET text == IF has_messages(input)
                     THEN messages_full_text(input.messages[1])
                     ELSE input.content
         IN  IF tok.encode = "raises"
             THEN [res   |-> CountingResult("gpt-4o", 0,
                                 Some("Token encoding failed: "
                                          \o tok.detail), FALSE),
                   exc   |-> None,
                   calls |-> <<AcquireCall, EncodeCall(text)>>]
             ELSE [res   |-> CountingResult("gpt-4o", EncodeLen(tok, text),
                                            None, has_messages(input)),
                   exc   |-> None,
                   calls |-> <<AcquireCall, EncodeCall(text)>>]

count_local_tokens_any_model(input, m, tok) == count_gpt4o_tokens(input, tok)

\* The encoding is acquired before the model name is looked at.
count_local_tokens_acquire_first(input, m, tok) ==
    IF m.name = "gpt-4o"
    THEN count_gpt4o_tokens(input, tok)
    ELSE [res   |-> CountingResult(m.name, 0,
                        Some("Local counting not supported for model: "
                                 \o m.name), FALSE),
          exc   |-> None,
          calls |-> <<AcquireCall>>]

count_local_tokens(input, m, tok) ==
    IF m.name = "gpt-4o"
    THEN count_gpt4o_tokens(input, tok)
    ELSE [res   |-> CountingResult(m.name, 0,
                        Some("Local counting not supported for model: "
                                 \o m.name), FALSE),
          exc   |-> None,
          calls |-> <<>>]

count_provider_tokens(input, m) ==
    [res   |-> CountingResult(m.name, 0,
                   Some("Provider token counting not yet implemented"),
                   FALSE),
     exc   |-> None,
     calls |-> <<>>]

\* TokenCounter.count_tokens: the dispatch inside the top-level guard.
TokenCounter_count_tokens(input, m, tok) ==
    LET r == IF m.tokenizer_type = "local"
             THEN count_local_tokens(input, m, tok)
             ELSE IF m.tokenizer_type = "provider"
             THEN count_provider_tokens(input, m)
             ELSE [res   |-> CountingResult(m.name, 0,
                                 Some("Unknown tokenizer type: "
                                          \o m.tokenizer_type), FALSE),
                   exc   |-> None,
                   calls |-> <<>>]
    IN  IF r.exc # None
        THEN [res   |-> CountingResult(m.name, 0,
                            Some("Token counting failed: " \o r.exc[1]),
                            FALSE),
              exc   |-> None,
              calls |-> r.calls]
        ELSE r

\* ------------------------------------------------------------------ inputs
ContentItems ==
    { [type |-> "str", value |-> "a"],
      [type |-> "str", value |-> ""],
      [type |-> "dict_text_str", value |-> "b"],
      [type |-> "dict_text_other", value |-> "7"],
      [type |-> "dict_no_text", value |-> "u"],
      [type |-> "number", value |-> "5"] }

StrContent(t) == [kind |-> "str", text |-> t, items |-> <<>>]

ListContent(items) == [kind |-> "list", text |-> "", items |-> items]

OtherContent == [kind |-> "other", text |-> "", items |-> <<>>]

MessageContents ==
    { StrContent(""), StrContent("Hi"), OtherContent,
      ListContent(<<>>),
      ListContent(<<[type |-> "str", value |-> "a"]>>),
      ListContent(<<[type |-> "dict_no_text", value |-> "u"]>>),
      ListContent(<<[type |-> "dict_text_str", value |-> "b"],
                    [type |-> "number", value |-> "5"],
                    [type |-> "str", value |-> "a"]>>) }

Messages == [role : {"system", "user", "tool"}, content : MessageContents]

InputDatas ==
    [content : {"", "Hello"},
     messages : {None} \cup {Some(ms) : ms \in SeqsUpTo(Messages, MaxMessages)},
     source : {"test"}]

Tokenizers ==
    { [acquire |-> "ok", encode |-> "ok", merge |-> 1, detail |-> ""],
      [acquire |-> "ok", encode |-> "ok", merge |-> 2, detail |-> ""],
      [acquire |-> "raises", encode |-> "ok", merge |-> 1,
       detail |-> "no encoding"],
      [acquire |-> "ok", encode |-> "raises", merge |-> 1,
       detail |-> "bad input"] }

\* The registry's models and the models test_counting.py builds.
CountModelDefinitions ==
    { [name |-> "gpt-4o", context_limit |-> 128000, tokenizer_type |-> "local"],
      [name |-> "claude-3-5-sonnet", context_limit |-> 200000,
       tokenizer_type |-> "provider"],
      [name |-> "unknown-model", context_limit |-> 1000,
       tokenizer_type |-> "unknown"],
      [name |-> "unsupported-local", context_limit |-> 1000,
       tokenizer_type |-> "local"] }

\* create_test_config(): no override, no absolute reserve, reserve_pct 0.2.
DefaultConfig == [max_tokens |-> None, reserve |-> None, reserve_pct |-> 20]

\* ------------------------------------------------- count, then analyze
InitCount ==
    /\ model \in CountModelDefinitions
    /\ input_data \in InputDatas
    /\ tokenizer \in Tokenizers
    /\ config = DefaultConfig
    /\ calls = <<>>
    /\ counting_result = None
    /\ result = None
    /\ raised = None
    /\ args = None
    /\ data = None
    /\ pc = "start"
    /\ content_array = None
    /\ extracted = None
    /\ requested = <<>>
    /\ pipelines = <<>>
    /\ exit_code = None
    /\ stdout = <<>>
    /\ records = <<>>

\* counting.count_tokens(input_data, model)
count_tokens ==
    /\ pc = "start"
    /\ LET r == TokenCounter_count_tokens(input_data, model, tokenizer)
       IN  IF r.exc # None
           THEN /\ raised' = r.exc
                /\ counting_result' = counting_result
                /\ pc' = "raised"
                /\ calls' = calls \o r.calls
           ELSE /\ counting_result' = r.res
                /\ raised' = raised
                /\ pc' = "counted"
                /\ calls' = calls \o r.calls
    /\ UNCHANGED <<readVars, model, config, result, input_data, tokenizer,
                   extractVars, pipeVars, mainVars>>

NextCount == count_tokens \/ analyze_budget

SpecCount == InitCount /\ [][NextCount]_vars

\* ------------------------------------- _extract_text_from_content_array
InitExtract ==
    /\ content_array \in SeqsUpTo(ContentItems, MaxItems)
    /\ extracted = None
    /\ pc = "start"
    /\ model = None
    /\ input_data = None
    /\ tokenizer = None
    /\ config = None
    /\ calls = <<>>
    /\ counting_result = None
    /\ result = None
    /\ raised = None
    /\ args = None
    /\ data = None
    /\ requested = <<>>
    /\ pipelines = <<>>
    /\ exit_code = None
    /\ stdout = <<>>
    /\ records = <<>>

extract_text ==
    /\ pc = "start"
    /\ extracted' = Some(extract_text_from_content_array(content_array))
    /\ pc' = "extracted"
    /\ UNCHANGED <<readVars, counting_result, model, config, result,
                   raised,
                   countVars, content_array, pipeVars, mainVars>>

NextExtract == extract_text

SpecExtract == InitExtract /\ [][NextExtract]_vars

\* --------------------------------------------- claims on the counting engine
\* count_tokens has returned (the outcome stays in counting_result).
Counted == pc \in {"counted", "analyzed"}

\* The model is the one model wired to the local tokenizer.
SupportedLocal == model.tokenizer_type = "local" /\ model.name = "gpt-4o"

\* C13: the provider strategy gives 0 tokens and "Provider token counting not
\* yet implemented"; a strategy other than local and provider gives 0 tokens
\* and "Unknown tokenizer type: <value>"; the local strategy with a model
\* other than gpt-4o gives 0 tokens and "Local counting not supported for
\* model: <name>"; each outcome carries the requested model's name.
C13_Dispatch ==
    Counted =>
        /\ model.tokenizer_type = "provider" =>
               /\ counting_result.error =
                      Some("Provider token counting not yet implemented")
               /\ counting_result.input_tokens = 0
               /\ counting_result.model = model.name
        /\ model.tokenizer_type \notin {"local", "provider"} =>
               /\ counting_result.error =
                      Some("Unknown tokenizer type: " \o model.tokenizer_type)
               /\ counting_result.input_tokens = 0
               /\ counting_result.model = model.name
        /\ (model.tokenizer_type = "local" /\ model.name # "gpt-4o") =>
               /\ counting_result.error =
                      Some("Local counting not supported for model: "
                               \o model.name)
               /\ counting_result.input_tokens = 0
               /\ counting_result.model = model.name
        /\ model.name = "unknown-model" =>
               counting_result.error = Some("Unknown tokenizer type: unknown")
        /\ model.name = "unsupported-local" =>
               counting_result.error =
                   Some("Local counting not supported for model: unsupported-local")

C13_Witness ==
    /\ Counted
    /\ model.name = "unsupported-local"
    /\ tokenizer.acquire = "ok"
    /\ tokenizer.encode = "ok"
    /\ input_data.content = "Hello"
    /\ counting_result.error # None
    /\ calls = <<>>

\* C14: for gpt-4o a successful count is approximate iff the input has a
\* message list (an empty one included); then the text encoded is built from
\* the messages and not from content; without messages the count is the
\* length of the encoding of content and the flag is false; empty content
\* counts 0.
C14_ApproximateIffMessages ==
    (Counted /\ SupportedLocal /\ counting_result.error = None) =>
        /\ counting_result.is_approximate <=> input_data.messages # None
        /\ input_data.messages = None =>
               /\ calls = <<AcquireCall, EncodeCall(input_data.content)>>
               /\ counting_result.input_tokens
                      = EncodeLen(tokenizer, input_data.content)
               /\ input_data.content = "" => counting_result.input_tokens = 0
        /\ input_data.messages = Some(<<>>) =>
               /\ calls = <<AcquireCall, EncodeCall("")>>
               /\ counting_result.input_tokens = 0
        /\ input_data.messages # None =>
               /\ Len(calls) = 2
               /\ calls[2].op = "encode"
               /\ counting_result.input_tokens
                      = EncodeLen(tokenizer, calls[2].arg)
               /\ (/\ input_data.content = "Hello"
                   /\ input_data.messages[1] =
                          <<[role |-> "system",
                             content |-> StrContent("Hi")]>>) =>
                      calls[2].arg = "<system>\n\nHi"

\* An empty message list with non-empty content: approximate, count 0.
C14_Witness ==
    /\ Counted
    /\ SupportedLocal
    /\ input_data.messages = Some(<<>>)
    /\ input_data.content = "Hello"
    /\ counting_result.error = None
    /\ counting_result.is_approximate
    /\ counting_result.input_tokens = 0

\* The fragments the claims keep of the first n items of a content list, and
\* joins written from the last part backwards.
RECURSIVE C16_Kept(_, _)
C16_Kept(items, n) ==
    IF n = 0 THEN <<>>
    ELSE IF items[n].type = "str" \/ items[n].type = "dict_text_str"
    THEN Append(C16_Kept(items, n - 1), items[n].value)
    ELSE C16_Kept(items, n - 1)

RECURSIVE JoinBackwards(_, _, _)
JoinBackwards(parts, sep, n) ==
    IF n = 0 THEN ""
    ELSE IF n = 1 THEN parts[1]
    ELSE JoinBackwards(parts, sep, n - 1) \o sep \o parts[n]

C16_Extraction(items) ==
    JoinBackwards(C16_Kept(items, Len(items)), " ",
                  Len(C16_Kept(items, Len(items))))

\* The segments of the first n messages as C15 lists them.
RECURSIVE C15_Segments(_, _)
C15_Segments(messages, n) ==
    IF n = 0 THEN <<>>
    ELSE LET c    == messages[n].content
             text == IF c.kind = "str" THEN <<c.text>>
                     ELSE IF c.kind = "list" /\ C16_Extraction(c.items) # ""
                     THEN <<C16_Extraction(c.items)>>
                     ELSE <<>>
         IN  C15_Segments(messages, n - 1)
                 \o <<"<" \o messages[n].role \o ">">> \o text

C15_FlatString(messages) ==
    JoinBackwards(C15_Segments(messages, Len(messages)), "\n\n",
                  Len(C15_Segments(messages, Len(messages))))

\* C15: the approximate count is the length of the encoding of one string:
\* per message, in order, the marker "<role>", then the content (a string
\* verbatim, a list's extraction unless it is empty), all joined by "\n\n".
C15_ApproximateCount ==
    (/\ Counted
     /\ SupportedLocal
     /\ input_data.messages # None
     /\ counting_result.error = None) =>
        LET flat == C15_FlatString(input_data.messages[1])
        IN  /\ calls = <<AcquireCall, EncodeCall(flat)>>
            /\ counting_result.input_tokens = EncodeLen(tokenizer, flat)
            /\ input_data.messages[1] =
                   <<[role |-> "system", content |-> StrContent("Hi")],
                     [role |-> "user", content |->
                        ListContent(<<[type |-> "dict_text_str", value |-> "b"],
                                      [type |-> "number", value |-> "5"],
                                      [type |-> "str", value |-> "a"]>>)]>> =>
                   calls[2].arg = "<system>\n\nHi\n\n<user>\n\nb a"
            /\ input_data.messages[1] =
                   <<[role |-> "tool", content |-> ListContent(<<>>)],
                     [role |-> "user", content |-> StrContent("")]>> =>
                   calls[2].arg = "<tool>\n\n<user>\n\n"

\* Two messages, the first one's list content without any text.
C15_Witness ==
    /\ Counted
    /\ SupportedLocal
    /\ counting_result.error = None
    /\ input_data.messages # None
    /\ Len(input_data.messages[1]) = 2
    /\ input_data.messages[1][1].content
           = ListContent(<<[type |-> "dict_no_text", value |-> "u"]>>)
    /\ input_data.messages[1][2].content = StrContent("Hi")
    /\ counting_result.input_tokens > 0

\* C16: the extraction of a content list is, in order, the items that are
\* strings and the string "text" of dicts, joined by single spaces; other
\* items are skipped; no kept fragment gives the empty string.
C16_ExtractText ==
    pc = "extracted" =>
        /\ extracted = Some(C16_Extraction(content_array))
        /\ (\A i \in 1..Len(content_array) :
                content_array[i].type \notin {"str", "dict_text_str"}) =>
               extracted = Some("")
        /\ content_array = <<[type |-> "dict_text_str", value |-> "b"],
                             [type |-> "dict_text_other", value |-> "7"],
                             [type |-> "str", value |-> "a"]>> =>
               extracted = Some("b a")

\* A skipped item between two kept ones.
C16_Witness ==
    /\ pc = "extracted"
    /\ Len(content_array) = 3
    /\ content_array[1].type = "str"
    /\ content_array[2].type = "dict_text_other"
    /\ content_array[3].type = "dict_text_str"
    /\ extracted = Some("a b")

\* A step of the count fails: the dispatch finds no routine, the tokenizer
\* cannot be acquired, or encoding raises.
StepFails ==
    \/ ~SupportedLocal
    \/ tokenizer.acquire = "raises"
    \/ tokenizer.encode = "raises"

\* C18: no failure escapes count: whatever step fails, the outcome has an
\* error, 0 tokens and the requested model's name; every outcome with an
\* error has 0 tokens.
C18_NoEscape ==
    /\ pc # "raised"
    /\ raised = None
    /\ Counted =>
           /\ counting_result.model = model.name
           /\ StepFails => counting_result.error # None
           /\ counting_result.error # None =>
                  counting_result.input_tokens = 0

\* Encoding raises on a message list.
C18_Witness ==
    /\ Counted
    /\ SupportedLocal
    /\ tokenizer.encode = "raises"
    /\ input_data.messages # None
    /\ Len(input_data.messages[1]) = 2
    /\ counting_result.error = Some("Token encoding failed: bad input")
    /\ counting_result.input_tokens = 0

\* The errors of a count that finds no counting routine for the model.
DispatchErrors ==
    { Some("Unknown tokenizer type: " \o model.tokenizer_type),
      Some("Provider token counting not yet implemented"),
      Some("Local counting not supported for model: " \o model.name) }

\* C25: a count that ends with "Unknown tokenizer type", "Provider token
\* counting not yet implemented" or "Local counting not supported for model"
\* has invoked neither the acquisition of the encoding nor encode.
C25_NoTokenizerUse ==
    Counted =>
        /\ counting_result.error \in DispatchErrors => calls = <<>>
        /\ ~SupportedLocal =>
               /\ counting_result.error \in DispatchErrors
               /\ \A i \in 1..Len(calls) :
                      calls[i].op \notin {"encoding_for_model", "encode"}

\* A local model other than gpt-4o, with a tokenizer that would have worked.
C25_Witness ==
    /\ Counted
    /\ model.tokenizer_type = "local"
    /\ model.name # "gpt-4o"
    /\ tokenizer.acquire = "ok"
    /\ input_data.messages # None
    /\ counting_result.error
           = Some("Local counting not supported for model: unsupported-local")
    /\ calls = <<>>

\* C26: in a count for gpt-4o the encoding is acquired exactly once, before
\* any encode; encode is invoked at most once and only after the acquisition
\* succeeded, exactly once on a successful count; after a failed acquisition
\* or a failed encode no further tokenizer call is made.
C26_TokenizerProtocol ==
    (Counted /\ SupportedLocal) =>
        /\ Len(calls) >= 1
        /\ calls[1] = AcquireCall
        /\ \A i \in 2..Len(calls) : calls[i].op = "encode"
        /\ Len(calls) <= 2
        /\ tokenizer.acquire = "raises" => Len(calls) = 1
        /\ tokenizer.acquire = "ok" => Len(calls) = 2
        /\ counting_result.error = None => Len(calls) = 2

\* Encoding raised on a message list: one acquisition, one encode, no retry.
C26_Witness ==
    /\ Counted
    /\ SupportedLocal
    /\ tokenizer.encode = "raises"
    /\ input_data.messages # None
    /\ input_data.messages[1] # <<>>
    /\ Len(calls) = 2
    /\ calls[2].op = "encode"
    /\ counting_result.error # None

\* C27: a failed acquisition gives "Failed to load tiktoken encoding:
\* <detail>", 0 tokens and is_approximate false; a failed encode (of the
\* content or of the message text) gives "Token encoding failed: <detail>"
\* and 0 tokens; neither is reported under the other prefix or under
\* "Token counting failed".
C27_FailureStage ==
    (Counted /\ SupportedLocal) =>
        /\ tokenizer.acquire = "raises" =>
               /\ counting_result.error =
                      Some("Failed to load tiktoken encoding: "
                               \o tokenizer.detail)
               /\ counting_result.error
                      # Some("Token encoding failed: " \o tokenizer.detail)
               /\ counting_result.error
                      # Some("Token counting failed: " \o tokenizer.detail)
               /\ counting_result.input_tokens = 0
               /\ counting_result.is_approximate = FALSE
        /\ (tokenizer.acquire = "ok" /\ tokenizer.encode = "raises") =>
               /\ counting_result.error =
                      Some("Token encoding failed: " \o tokenizer.detail)
               /\ counting_result.error
                      # Some("Failed to load tiktoken encoding: "
                               \o tokenizer.detail)
               /\ counting_result.error
                      # Some("Token counting failed: " \o tokenizer.detail)
               /\ counting_result.input_tokens = 0
        /\ (tokenizer.acquire = "ok" /\ tokenizer.encode = "ok") =>
               counting_result.error = None

\* The acquisition failed on plain text.
C27_Witness ==
    /\ Counted
    /\ SupportedLocal
    /\ tokenizer.acquire = "raises"
    /\ input_data.messages = None
    /\ input_data.content = "Hello"
    /\ counting_result.error
           = Some("Failed to load tiktoken encoding: no encoding")

\* C28 (as claimed): on a failed count is_approximate is false when the
\* failure precedes the choice of the strategy (dispatch, acquisition) and
\* true when encoding fails for an input with a message list; the analysis
\* copies the flag into its record.
C28_ApproximateOnFailure ==
    /\ (Counted /\ counting_result.error # None) =>
           /\ (~SupportedLocal \/ tokenizer.acquire = "raises") =>
                  counting_result.is_approximate = FALSE
           /\ (/\ SupportedLocal
               /\ tokenizer.acquire = "ok"
               /\ tokenizer.encode = "raises"
               /\ input_data.messages # None) =>
                  counting_result.is_approximate = TRUE
    /\ (pc = "analyzed" /\ counting_result.error # None) =>
           result.is_approximate = counting_result.is_approximate

\* Segments and characters of the first n messages, by the shape of the
\* contents alone.
C29_SecondSegment(c) ==
    IF c.kind = "str" THEN TRUE
    ELSE IF c.kind = "list"
    THEN \E i \in 1..Len(c.items) :
             /\ c.items[i].type \in {"str", "dict_text_str"}
             /\ \/ c.items[i].value # ""
                \/ \E j \in 1..Len(c.items) :
                       j # i /\ c.items[j].type \in {"str", "dict_text_str"}
    ELSE FALSE

RECURSIVE C29_SegmentCount(_, _)
C29_SegmentCount(messages, n) ==
    IF n = 0 THEN 0
    ELSE C29_SegmentCount(messages, n - 1) + 1
             + (IF C29_SecondSegment(messages[n].content) THEN 1 ELSE 0)

RECURSIVE C29_SegmentChars(_, _)
C29_SegmentChars(messages, n) ==
    IF n = 0 THEN 0
    ELSE LET c == messages[n].content
         IN  C29_SegmentChars(messages, n - 1)
                 + Len(messages[n].role) + 2
                 + (IF c.kind = "str" THEN Len(c.text)
                    ELSE IF c.kind = "list"
                    THEN Len(C16_Extraction(c.items))
                    ELSE 0)

\* C29: every message gives its role marker; a string content always gives a
\* second segment, even when empty; a list content gives one only when its
\* extraction is not empty; any other content gives none.  n messages give
\* between n and 2n segments, joined by "\n\n"; no message gives "".
C29_SegmentShape ==
    (/\ Counted
     /\ SupportedLocal
     /\ input_data.messages # None
     /\ tokenizer.acquire = "ok") =>
        LET messages == input_data.messages[1]
            n        == Len(messages)
            segments == C29_SegmentCount(messages, n)
        IN  /\ Len(text_parts(messages)) = segments
            /\ n <= segments
            /\ segments <= 2 * n
            /\ n = 0 => calls[2].arg = ""
            /\ n > 0 =>
                   Len(calls[2].arg) =
                       C29_SegmentChars(messages, n) + 2 * (segments - 1)
            /\ (counting_result.error = None /\ tokenizer.merge = 1) =>
                   counting_result.input_tokens = Len(calls[2].arg)

\* Two messages with empty string contents: four segments, three separators.
C29_Witness ==
    /\ Counted
    /\ SupportedLocal
    /\ tokenizer.acquire = "ok"
    /\ tokenizer.encode = "ok"
    /\ tokenizer.merge = 1
    /\ input_data.messages # None
    /\ Len(input_data.messages[1]) = 2
    /\ input_data.messages[1][1] = [role |-> "user", content |-> StrContent("")]
    /\ input_data.messages[1][2] = [role |-> "tool", content |-> StrContent("")]
    /\ calls[2].arg = "<user>\n\n\n\n<tool>\n\n"
    /\ counting_result.input_tokens = 18

(***************************************************************************)
(* Per-model pipelines: for each requested model count_tokens, then         *)
(* analyze_budget.  Each call of the two module-level functions builds a    *)
(* fresh TokenCounter / BudgetAnalyzer and works on its own arguments; the  *)
(* caller may run the pipelines of several models in any interleaving.      *)
(* pipelines[i] is the state of the pipeline of requested[i].               *)
(***************************************************************************)

\* ---------------------------------------------------------------- bounds
\* Largest number of models requested in one invocation.
MaxRequested == 2

\* The models a pipeline may be requested for.
PipelineModelDefinitions ==
    CountModelDefinitions \cup
        { [name |-> "gpt-4o", context_limit |-> 0, tokenizer_type |-> "local"] }

PipelineInputDatas ==
    { [content |-> "Hello", messages |-> None, source |-> "test"],
      [content |-> "", messages |-> None, source |-> "test"],
      [content |-> "",
       messages |-> Some(<<[role |-> "user", content |-> StrContent("Hi")]>>),
       source |-> "test"] }

PipelineConfigs ==
    { DefaultConfig,
      [max_tokens |-> Some(800), reserve |-> Some(150), reserve_pct |-> 20],
      [max_tokens |-> None, reserve |-> None, reserve_pct |-> 100] }

\* Sequences without repetition.
Distinct(q) == \A i, j \in 1..Len(q) : i # j => q[i] # q[j]

InitPipelines ==
    /\ requested \in {q \in SeqsUpTo(PipelineModelDefinitions, MaxRequested) :
                         q # <<>> /\ Distinct(q)}
    /\ input_data \in PipelineInputDatas
    /\ tokenizer \in Tokenizers
    /\ config \in PipelineConfigs
    /\ pipelines = [i \in 1..Len(requested) |->
                       [pc |-> "start", counting_result |-> None,
                        result |-> None]]
    /\ pc = "pipelines"
    /\ model = None
    /\ calls = <<>>
    /\ counting_result = None
    /\ result = None
    /\ raised = None
    /\ args = None
    /\ data = None
    /\ content_array = None
    /\ extracted = None
    /\ exit_code = None
    /\ stdout = <<>>
    /\ records = <<>>

\* counting.count_tokens(input_data, requested[i])
pipeline_count(i) ==
    /\ pipelines[i].pc = "start"
    /\ pipelines' =
           [pipelines EXCEPT
                ![i].counting_result =
                    TokenCounter_count_tokens(input_data, requested[i],
                                              tokenizer).res,
                ![i].pc = "counted"]
    /\ UNCHANGED <<readVars, counting_result, model, config, result,
                   raised, pc,
                   countVars, extractVars, requested, mainVars>>

\* An analysis that reads the counting result most recently stored by the
\* first pipeline instead of its own argument.
pipeline_analyze_shared(i) ==
    /\ pipelines[i].pc = "counted"
    /\ pipelines' =
           [pipelines EXCEPT
                ![i].result =
                    BudgetAnalyzer_analyze_budget(
                        IF pipelines[1].pc = "start"
                        THEN pipelines[i].counting_result
                        ELSE pipelines[1].counting_result,
                        requested[i], config),
                ![i].pc = "analyzed"]
    /\ UNCHANGED <<readVars, counting_result, model, config, result,
                   raised, pc,
                   countVars, extractVars, requested, mainVars>>

\* budget.analyze_budget(counting_result, requested[i], config)
pipeline_analyze(i) ==
    /\ pipelines[i].pc = "counted"
    /\ pipelines' =
           [pipelines EXCEPT
                ![i].result =
                    BudgetAnalyzer_analyze_budget(
                        pipelines[i].counting_result, requested[i], config),
                ![i].pc = "analyzed"]
    /\ UNCHANGED <<readVars, counting_result, model, config, result,
                   raised, pc,
                   countVars, extractVars, requested, mainVars>>

NextPipelines ==
    \E i \in 1..Len(requested) : pipeline_count(i) \/ pipeline_analyze(i)

SpecPipelines == InitPipelines /\ [][NextPipelines]_vars

\* The outcome and the record of model m when its pipeline runs alone.
CountAlone(m) == TokenCounter_count_tokens(input_data, m, tokenizer).res

RecordAlone(m) == BudgetAnalyzer_analyze_budget(CountAlone(m), m, config)

RegistryModelDefinitions ==
    { [name |-> "gpt-4o", context_limit |-> 128000, tokenizer_type |-> "local"],
      [name |-> "claude-3-5-sonnet", context_limit |-> 200000,
       tokenizer_type |-> "provider"] }

\* The invocation: the models named by --model, the budget options, the
\* input on stdin.
InitMain ==
    /\ requested \in {q \in SeqsUpTo(RegistryModelDefinitions, MaxRequested) :
                         q # <<>> /\ Distinct(q)}
    /\ config \in CLIConfigs
    /\ input_data \in PipelineInputDatas
    /\ tokenizer = [acquire |-> "ok", encode |-> "ok", merge |-> 1,
                    detail |-> ""]
    /\ pc = "start"
    /\ exit_code = None
    /\ stdout = <<>>
    /\ records = <<>>
    /\ pipelines = <<>>
    /\ model = None
    /\ calls = <<>>
    /\ counting_result = None
    /\ result = None
    /\ raised = None
    /\ args = None
    /\ data = None
    /\ content_array = None
    /\ extracted = None

main ==
    /\ pc = "start"
    /\ stdout' = Append(stdout, "Token Counter CLI - Not yet implemented")
    /\ exit_code' = Some(0)
    /\ pc' = "exited"
    /\ UNCHANGED <<readVars, counting_result, model, config, result,
                   raised,
                   countVars, extractVars, pipeVars, records>>

NextMain == main

SpecMain == InitMain /\ [][NextMain]_vars

\* C20 (as claimed): main produces one budget record per requested model, in
\* request order, each the analysis of that model's count, and returns 2
\* when a record exceeds the budget and 0 when none does.
C20_EntryPoint ==
    pc = "exited" =>
        /\ Len(records) = Len(requested)
        /\ \A i \in 1..Len(records) : records[i] = RecordAlone(requested[i])
        /\ exit_code =
               IF \E i \in 1..Len(requested) :
                      RecordAlone(requested[i]).error
                          = Some(ErrorExceedsBudget)
               THEN Some(2)
               ELSE Some(0)

(***************************************************************************)
(* Output formatting (src/token_counter_cli/output.py).                     *)
(*                                                                          *)
(* format_json builds one dict per BudgetResult and returns                 *)
(* json.dumps(json_results, indent=2).  A dict is the sequence of its       *)
(* (key, value) pairs in insertion order; the text is the sequence of its   *)
(* lines.  Strings are drawn from texts that json.dumps writes unescaped.   *)
(***************************************************************************)

\* ---------------------------------------------------------------- bounds
\* Longest list of results handed to format_json.
MaxRecords == 2

\* ------------------------------------------------------------- json.dumps
\* str(n) for a natural number
RECURSIVE NatToStr(_)
NatToStr(n) ==
    LET digit == <<"0", "1", "2", "3", "4", "5", "6", "7", "8", "9">>
    IN  IF n < 10 THEN digit[n + 1]
        ELSE NatToStr(n \div 10) \o digit[(n % 10) + 1]

\* json.dumps of an int
JsonInt(n) == IF n < 0 THEN "-" \o NatToStr(0 - n) ELSE NatToStr(n)

\* json.dumps of a float that is a multiple of 0.01, given in hundredths:
\* float.__repr__, the shortest decimal that reads back the same.
JsonFloat(h) ==
    LET a     == IF h < 0 THEN 0 - h ELSE h
        whole == NatToStr(a \div 100)
        frac  == a % 100
    IN  (IF h < 0 THEN "-" ELSE "")
            \o whole \o "."
            \o (IF frac % 10 = 0 THEN NatToStr(frac \div 10)
                ELSE NatToStr(frac \div 10) \o NatToStr(frac % 10))

\* json.dumps of a str without characters to escape
JsonStr(t) == "\"" \o t \o "\""

\* json.dumps of an Optional[str]
JsonOptStr(opt) == IF opt = None THEN "null" ELSE JsonStr(opt[1])

\* The lines of one dict at nesting depth 1, `last` for the last of the list.
RECURSIVE json_member_lines(_, _)
json_member_lines(pairs, n) ==
    IF n = 0 THEN <<>>
    ELSE Append(json_member_lines(pairs, n - 1),
                "    " \o JsonStr(pairs[n][1]) \o ": " \o pairs[n][2]
                    \o (IF n = Len(pairs) THEN "" ELSE ","))

json_object_lines(pairs, last) ==
    <<"  {">> \o json_member_lines(pairs, Len(pairs))
        \o <<IF last THEN "  }" ELSE "  },">>

RECURSIVE json_array_lines(_, _)
json_array_lines(objects, n) ==
    IF n = 0 THEN <<>>
    ELSE json_array_lines(objects, n - 1)
             \o json_object_lines(objects[n], n = Len(objects))

\* json.dumps(json_results, indent=2), as lines.
json_dumps(objects) ==
    IF objects = <<>> THEN <<"[]">>
    ELSE <<"[">> \o json_array_lines(objects, Len(objects)) \o <<"]">>

\* ---------------------------------------------------------- OutputFormatter
\* A dict that leaves out the keys whose value is None.
json_result_omit_null(r) ==
    <<<<"model", JsonStr(r.model)>>,
      <<"input_tokens", JsonInt(r.input_tokens)>>,
      <<"context_limit", JsonInt(r.context_limit)>>,
      <<"pct_used", JsonFloat(r.pct_used)>>,
      <<"remaining_tokens", JsonInt(r.remaining_tokens)>>>>
        \o (IF r.warning = None THEN <<>>
            ELSE <<<<"warning", JsonOptStr(r.warning)>>>>)
        \o (IF r.error = None THEN <<>>
            ELSE <<<<"error", JsonOptStr(r.error)>>>>)

\* The dict format_json builds for one result.
json_result(r) ==
    <<<<"model", JsonStr(r.model)>>,
      <<"input_tokens", JsonInt(r.input_tokens)>>,
      <<"context_limit", JsonInt(r.context_limit)>>,
      <<"pct_used", JsonFloat(r.pct_used)>>,
      <<"remaining_tokens", JsonInt(r.remaining_tokens)>>,
      <<"warning", JsonOptStr(r.warning)>>,
      <<"error", JsonOptStr(r.error)>>>>

OutputFormatter_format_json(results) ==
    json_dumps([i \in 1..Len(results) |-> json_result(results[i])])

\* ------------------------------------------------------------------ inputs
\* Results of analyze_budget: plain, warning, error, failed count, zero limit.
OutputRecords ==
    { BudgetAnalyzer_analyze_budget(
          CountingResult(m.name, t, e, FALSE), m, cfg) :
          t \in {0, 12, 80, 150},
          e \in {None, Some("Provider token counting not yet implemented")},
          m \in { [name |-> "gpt-4o", context_limit |-> 100,
                   tokenizer_type |-> "local"],
                  [name |-> "claude-3-5-sonnet", context_limit |-> 0,
                   tokenizer_type |-> "provider"] },
          cfg \in {DefaultConfig} }

InitOutput ==
    /\ records \in SeqsUpTo(OutputRecords, MaxRecords)
    /\ stdout = <<>>
    /\ pc = "start"
    /\ exit_code = None
    /\ model = None
    /\ input_data = None
    /\ tokenizer = None
    /\ config = None
    /\ calls = <<>>
    /\ counting_result = None
    /\ result = None
    /\ raised = None
    /\ args = None
    /\ data = None
    /\ content_array = None
    /\ extracted = None
    /\ requested = <<>>
    /\ pipelines = <<>>

\* output.format_json(results)
format_json ==
    /\ pc = "start"
    /\ stdout' = OutputFormatter_format_json(records)
    /\ pc' = "formatted"
    /\ UNCHANGED <<readVars, counting_result, model, config, result,
                   raised,
                   countVars, extractVars, pipeVars, exit_code, records>>

NextOutput == format_json

SpecOutput == InitOutput /\ [][NextOutput]_vars

\* The keys of the rendering schema, in the order format_json writes them.
C21_Keys ==
    <<"model", "input_tokens", "context_limit", "pct_used",
      "remaining_tokens", "warning", "error">>

\* The value written for key k of record r.
C21_Value(r, k) ==
    CASE k = 1 -> JsonStr(r.model)
      [] k = 2 -> JsonInt(r.input_tokens)
      [] k = 3 -> JsonInt(r.context_limit)
      [] k = 4 -> JsonFloat(r.pct_used)
      [] k = 5 -> JsonInt(r.remaining_tokens)
      [] k = 6 -> IF r.warning = None THEN "null" ELSE JsonStr(r.warning[1])
      [] k = 7 -> IF r.error = None THEN "null" ELSE JsonStr(r.error[1])

\* C21: format_json writes one object per result, in the order of the list,
\* each with exactly the seven keys model, input_tokens, context_limit,
\* pct_used, remaining_tokens, warning, error; an absent warning or error is
\* written as null; the values are those of the result; no result gives [].
C21_JsonSchema ==
    pc = "formatted" =>
        LET n == Len(records)
        IN  /\ n = 0 => stdout = <<"[]">>
            /\ n > 0 =>
                   /\ Len(stdout) = 2 + 9 * n
                   /\ stdout[1] = "["
                   /\ stdout[Len(stdout)] = "]"
                   /\ \A i \in 1..n :
                          LET base == 1 + 9 * (i - 1)
                          IN  /\ stdout[base + 1] = "  {"
                              /\ stdout[base + 9] =
                                     (IF i = n THEN "  }" ELSE "  },")
                              /\ \A k \in 1..7 :
                                     stdout[base + 1 + k] =
                                         "    \"" \o C21_Keys[k] \o "\": "
                                             \o C21_Value(records[i], k)
                                             \o (IF k = 7 THEN "" ELSE ",")
            /\ (n = 1 /\ records[1].model = "gpt-4o"
                      /\ records[1].input_tokens = 12
                      /\ records[1].error = None) =>
                   stdout = <<"[", "  {",
                              "    \"model\": \"gpt-4o\",",
                              "    \"input_tokens\": 12,",
                              "    \"context_limit\": 100,",
                              "    \"pct_used\": 0.12,",
                              "    \"remaining_tokens\": 68,",
                              "    \"warning\": null,",
                              "    \"error\": null",
                              "  }", "]">>
            /\ (n = 1 /\ records[1].model = "claude-3-5-sonnet"
                      /\ records[1].input_tokens = 150) =>
                   stdout = <<"[", "  {",
                              "    \"model\": \"claude-3-5-sonnet\",",
                              "    \"input_tokens\": 150,",
                              "    \"context_limit\": 0,",
                              "    \"pct_used\": 999.99,",
                              "    \"remaining_tokens\": -150,",
                              "    \"warning\": null,",
                              "    \"error\": \"error: exceeds budget\"",
                              "  }", "]">>

\* Two results, the first with a warning and no error, the second a failed
\* count.
C21_Witness ==
    /\ pc = "formatted"
    /\ Len(records) = 2
    /\ records[1].warning = Some(WarningNearLimit)
    /\ records[1].error = None
    /\ records[2].error = Some("Provider token counting not yet implemented")
    /\ records[2].warning = None
    /\ Len(stdout) = 20
    /\ stdout[8] = "    \"warning\": \"warning: near limit\","
    /\ stdout[9] = "    \"error\": null"
    /\ stdout[17] = "    \"warning\": null,"

(***************************************************************************)
(* Configuration (src/token_counter_cli/cli.py).                            *)
(*                                                                          *)
(* args is what a CLIConfig is built from: the options of a command line    *)
(* (via = "parse_args"; an option not given is None, --model repeated is a  *)
(* sequence) or the arguments of CLIConfig(...) (via = "CLIConfig").  The   *)
(* fields input_source, input_path and json_output play no part in the      *)
(* validation and are left out.                                             *)
(***************************************************************************)
ValidModels == {"gpt-4o", "claude-3-5-sonnet"}

Exception(type, message) == [type |-> type, message |-> message]

\* The first model name that is not valid, if any.
RECURSIVE first_invalid_model(_)
first_invalid_model(models) ==
    IF models = <<>> THEN None
    ELSE IF Head(models) \notin ValidModels THEN Some(Head(models))
    ELSE first_invalid_model(Tail(models))

\* CLIConfig.__post_init__: the exception it raises, None when it returns.
CLIConfig_post_init(cfg) ==
    IF cfg.reserve # None /\ cfg.reserve[1] < 0
    THEN Some(Exception("ValueError", "--reserve must be non-negative"))
    ELSE IF ~(0 <= cfg.reserve_pct /\ cfg.reserve_pct <= 100)
    THEN Some(Exception("ValueError",
                        "--reserve-pct must be in range [0.0, 1.0]"))
    ELSE IF first_invalid_model(cfg.models) # None
    THEN Some(Exception("ValueError",
                        "Unknown model: " \o first_invalid_model(cfg.models)[1]
                            \o ". Valid models: claude-3-5-sonnet, gpt-4o"))
    ELSE None

\* CLIConfig(models=..., max_tokens=..., reserve=..., reserve_pct=...)
CLIConfig(models, max_tokens, reserve, reserve_pct) ==
    LET cfg == [models |-> models, max_tokens |-> max_tokens,
                reserve |-> reserve, reserve_pct |-> reserve_pct]
    IN  IF CLIConfig_post_init(cfg) # None
        THEN [cfg |-> None, exc |-> CLIConfig_post_init(cfg)]
        ELSE [cfg |-> Some(cfg), exc |-> None]

\* CLIArgumentParser._build_config on the parsed namespace.
CLIArgumentParser_build_config(ns) ==
    LET models == IF ns.models # <<>> THEN ns.models
                  ELSE <<"gpt-4o", "claude-3-5-sonnet">>
    IN  IF ns.max_tokens # None /\ ns.max_tokens[1] <= 0
        THEN [cfg |-> None,
              exc |-> Some(Exception("ValueError",
                                     "--max-tokens must be positive"))]
        ELSE CLIConfig(models, ns.max_tokens, ns.reserve, ns.reserve_pct)

\* CLIArgumentParser.parse_args: argparse (the mutually exclusive group, the
\* default of --reserve-pct), then _build_config; parser.error exits with 2.
CLIArgumentParser_parse_args(a) ==
    IF a.reserve # None /\ a.reserve_pct # None
    THEN [cfg |-> None,
          exc |-> Some(Exception("SystemExit",
                  "argument --reserve-pct: not allowed with argument --reserve"))]
    ELSE LET ns == [models |-> a.models, max_tokens |-> a.max_tokens,
                    reserve |-> a.reserve,
                    reserve_pct |-> IF a.reserve_pct = None THEN 20
                                    ELSE a.reserve_pct[1]]
             r  == CLIArgumentParser_build_config(ns)
         IN  IF r.exc # None
             THEN [cfg |-> None,
                   exc |-> Some(Exception("SystemExit", r.exc[1].message))]
             ELSE r

\* ------------------------------------------------------------------ inputs
ConfigArgs ==
    { a \in [via : {"parse_args", "CLIConfig"},
             models : { <<>>, <<"gpt-4o">>,
                        <<"gpt-4o", "claude-3-5-sonnet">>,
                        <<"gpt-5">>, <<"gpt-4o", "gpt-5">> },
             max_tokens : {None, Some(-5), Some(0), Some(800)},
             reserve : {None, Some(-1), Some(0), Some(150)},
             reserve_pct : {None, Some(-1), Some(0), Some(20), Some(100),
                            Some(101)}] :
          a.via = "CLIConfig" => a.reserve_pct # None }

InitConfig ==
    /\ args \in ConfigArgs
    /\ config = None
    /\ raised = None
    /\ pc = "start"
    /\ data = None
    /\ model = None
    /\ input_data = None
    /\ tokenizer = None
    /\ calls = <<>>
    /\ counting_result = None
    /\ result = None
    /\ content_array = None
    /\ extracted = None
    /\ requested = <<>>
    /\ pipelines = <<>>
    /\ exit_code = None
    /\ stdout = <<>>
    /\ records = <<>>

\* cli.parse_cli_args(args)
parse_cli_args ==
    /\ pc = "start"
    /\ args.via = "parse_args"
    /\ LET r == CLIArgumentParser_parse_args(args)
       IN  IF r.exc # None
           THEN /\ raised' = r.exc
                /\ config' = config
                /\ pc' = "raised"
           ELSE /\ config' = r.cfg[1]
                /\ raised' = raised
                /\ pc' = "configured"
    /\ UNCHANGED <<readVars, counting_result, model, result,
                   countVars, extractVars, pipeVars, mainVars>>

\* CLIConfig(...) called directly
construct_CLIConfig ==
    /\ pc = "start"
    /\ args.via = "CLIConfig"
    /\ LET r == CLIConfig(args.models, args.max_tokens, args.reserve,
                          args.reserve_pct[1])
       IN  IF r.exc # None
           THEN /\ raised' = r.exc
                /\ config' = config
                /\ pc' = "raised"
           ELSE /\ config' = r.cfg[1]
                /\ raised' = raised
                /\ pc' = "configured"
    /\ UNCHANGED <<readVars, counting_result, model, result,
                   countVars, extractVars, pipeVars, mainVars>>

NextConfig == parse_cli_args \/ construct_CLIConfig

SpecConfig == InitConfig /\ [][NextConfig]_vars

\* The arguments break a range invariant.
C22_Violating ==
    \/ args.max_tokens # None /\ args.max_tokens[1] <= 0
    \/ args.reserve # None /\ args.reserve[1] < 0
    \/ args.reserve_pct # None
           /\ (args.reserve_pct[1] < 0 \/ args.reserve_pct[1] > 100)
    \/ \E i \in 1..Len(args.models) : args.models[i] \notin ValidModels

\* C22 (as claimed): every CLIConfig constructed, by parse_args or directly,
\* has max_tokens absent or positive, reserve absent or non-negative,
\* reserve_pct in [0.0, 1.0] and known models only; violating arguments are
\* rejected with an error; --reserve together with --reserve-pct is rejected.
C22_ConfigInvariants ==
    /\ pc = "configured" =>
           /\ config.max_tokens = None \/ config.max_tokens[1] > 0
           /\ config.reserve = None \/ config.reserve[1] >= 0
           /\ 0 <= config.reserve_pct /\ config.reserve_pct <= 100
           /\ \A i \in 1..Len(config.models) : config.models[i] \in ValidModels
    /\ (pc # "start" /\ C22_Violating) =>
           pc = "raised" /\ raised # None /\ config = None
    /\ (/\ pc # "start"
        /\ args.via = "parse_args"
        /\ args.reserve # None
        /\ args.reserve_pct # None) => pc = "raised"

(***************************************************************************)
(* Reading a messages file (src/token_counter_cli/input.py).                *)
(*                                                                          *)
(* data is the value json.loads returned.  A JSON array is                  *)
(* [kind |-> "list", items |-> ...]; an item is [type, role, content] with  *)
(* type the Python type name of the item; for a dict, role is the value of  *)
(* its "role" key ([t, v]: t is "absent" when the key is missing, else the  *)
(* kind of the value, v its str()) and content the value of its "content"   *)
(* key (kind "absent" when the key is missing).                             *)
(***************************************************************************)

\* ---------------------------------------------------------------- bounds
\* Longest JSON array read from a messages file.
MaxData == 2

ValidRoles == {"system", "user", "assistant", "tool"}

AbsentContent == [kind |-> "absent", text |-> "", items |-> <<>>]

\* ------------------------------------------------------------------ Message
\* Message.__post_init__: the exception raised, None when it returns.  A
\* list or dict role is unhashable, so `role not in valid_roles` raises.
Message_post_init(role) ==
    IF role.t \in {"list", "dict"}
    THEN Some(Exception("TypeError", "unhashable type: '" \o role.t \o "'"))
    ELSE IF ~(role.t = "str" /\ role.v \in ValidRoles)
    THEN Some(Exception("ValueError",
                        "Invalid message role: " \o role.v
                            \o ". Valid roles: assistant, system, tool, user"))
    ELSE None

\* ------------------------------------------------------------- InputHandler
\* InputHandler._extract_text_from_content_array
InputHandler_extract_text_from_content_array(content_array_) ==
    LET kept == SelectSeq(content_array_,
                    LAMBDA item : item.type \in {"str", "dict_text_str"})
    IN  JoinStr([i \in 1..Len(kept) |-> kept[i].value], " ")

\* The parts one message adds to text_parts in _messages_to_text.
InputHandler_message_parts_keep_empty(message) ==
    IF message.content.kind = "str" THEN <<message.content.text>>
    ELSE IF message.content.kind = "list"
    THEN <<InputHandler_extract_text_from_content_array(
               message.content.items)>>
    ELSE <<>>

InputHandler_message_parts(message) ==
    IF message.content.kind = "str" THEN <<message.content.text>>
    ELSE IF message.content.kind = "list"
    THEN (LET content_text ==
                  InputHandler_extract_text_from_content_array(
                      message.content.items)
          IN  IF content_text # "" THEN <<content_text>> ELSE <<>>)
    ELSE <<>>

RECURSIVE InputHandler_text_parts(_)
InputHandler_text_parts(messages) ==
    IF messages = <<>> THEN <<>>
    ELSE InputHandler_message_parts(Head(messages))
             \o InputHandler_text_parts(Tail(messages))

\* InputHandler._messages_to_text
InputHandler_messages_to_text(messages) ==
    JoinStr(InputHandler_text_parts(messages), "\n\n")

\* The loop of parse_messages from item i (1-based; the messages say i - 1)
\* with the messages built so far.
RECURSIVE parse_items(_, _, _, _)
parse_items(items, i, messages, source) ==
    IF i > Len(items) THEN [messages |-> Some(messages), exc |-> None]
    ELSE LET item == items[i]
             idx  == NatToStr(i - 1)
             fail(type, message) ==
                 [messages |-> None, exc |-> Some(Exception(type, message))]
         IN  IF item.type # "dict"
             THEN fail("ValueError",
                       "Message " \o idx \o " must be an object in "
                           \o source \o ", got " \o item.type)
             ELSE IF item.role.t = "absent"
             THEN fail("ValueError",
                       "Message " \o idx
                           \o " missing required field 'role' in " \o source)
             ELSE IF item.content.kind = "absent"
             THEN fail("ValueError",
                       "Message " \o idx
                           \o " missing required field 'content' in "
                           \o source)
             ELSE LET e == Message_post_init(item.role)
                  IN  IF e = None
                      THEN parse_items(items, i + 1,
                               Append(messages,
                                      [role |-> item.role.v,
                                       content |-> item.content]),
                               source)
                      ELSE IF e[1].type = "ValueError"
                      THEN fail("ValueError",
                                "Message " \o idx \o " in " \o source \o ": "
                                    \o e[1].message)
                      ELSE [messages |-> None, exc |-> e]

\* InputHandler.parse_messages(data, source)
InputHandler_parse_messages(data_, source) ==
    IF data_.kind # "list"
    THEN [messages |-> None,
          exc |-> Some(Exception("ValueError",
                       "Messages must be an array of objects in " \o source
                           \o ", got " \o data_.kind))]
    ELSE IF data_.items = <<>>
    THEN [messages |-> None,
          exc |-> Some(Exception("ValueError",
                       "Messages array cannot be empty in " \o source))]
    ELSE parse_items(data_.items, 1, <<>>, source)

\* ------------------------------------------------------------------ inputs
RoleValues ==
    { [t |-> "absent", v |-> ""],
      [t |-> "str", v |-> "user"],
      [t |-> "str", v |-> "assistant"],
      [t |-> "str", v |-> "admin"],
      [t |-> "NoneType", v |-> "None"],
      [t |-> "list", v |-> "[]"] }

ContentValues ==
    { AbsentContent, StrContent("Hi"), StrContent(""), OtherContent,
      ListContent(<<>>),
      ListContent(<<[type |-> "str", value |-> "a"]>>),
      ListContent(<<[type |-> "dict_text_str", value |-> "b"],
                    [type |-> "number", value |-> "5"],
                    [type |-> "str", value |-> "a"]>>) }

DataItems ==
    [type : {"dict"}, role : RoleValues, content : ContentValues]
        \cup { [type |-> "str", role |-> [t |-> "absent", v |-> ""],
                content |-> AbsentContent] }

JsonData ==
    { [kind |-> "dict", items |-> <<>>], [kind |-> "str", items |-> <<>>] }
        \cup { [kind |-> "list", items |-> q] : q \in SeqsUpTo(DataItems, MaxData) }

InitInput ==
    /\ data \in JsonData
    /\ input_data = None
    /\ raised = None
    /\ pc = "start"
    /\ args = None
    /\ model = None
    /\ config = None
    /\ tokenizer = None
    /\ calls = <<>>
    /\ counting_result = None
    /\ result = None
    /\ content_array = None
    /\ extracted = None
    /\ requested = <<>>
    /\ pipelines = <<>>
    /\ exit_code = None
    /\ stdout = <<>>
    /\ records = <<>>

\* InputHandler._read_messages_file from json.loads on: parse_messages, then
\* _messages_to_text, then the InputData.
read_messages_file ==
    /\ pc = "start"
    /\ LET r == InputHandler_parse_messages(data, "messages.json")
       IN  IF r.exc # None
           THEN /\ raised' = r.exc
                /\ input_data' = input_data
                /\ pc' = "raised"
           ELSE /\ input_data' =
                       [content  |-> InputHandler_messages_to_text(
                                         r.messages[1]),
                        messages |-> r.messages,
                        source   |-> "messages.json"]
                /\ raised' = raised
                /\ pc' = "read"
    /\ UNCHANGED <<readVars, counting_result, model, config, result,
                   tokenizer, calls, extractVars, pipeVars, mainVars>>

NextInput == read_messages_file

SpecInput == InitInput /\ [][NextInput]_vars

\* The texts C23 joins for the first n messages: no role markers, string
\* contents verbatim, list contents by extraction unless that is empty.
RECURSIVE C23_Texts(_, _)
C23_Texts(messages, n) ==
    IF n = 0 THEN <<>>
    ELSE LET c == messages[n].content
         IN  C23_Texts(messages, n - 1) \o
                 (IF c.kind = "str" THEN <<c.text>>
                  ELSE IF c.kind = "list" /\ C16_Extraction(c.items) # ""
                  THEN <<C16_Extraction(c.items)>>
                  ELSE <<>>)

\* C23: the content of an InputData built from a message list is the "\n\n"
\* join, in message order, of the messages' texts without role markers; a
\* list content whose extraction is empty is left out.
C23_DerivedContent ==
    pc = "read" =>
        LET messages == input_data.messages[1]
            texts    == C23_Texts(messages, Len(messages))
        IN  /\ input_data.content = JoinBackwards(texts, "\n\n", Len(texts))
            /\ (/\ Len(messages) = 2
                /\ messages[1].content = StrContent("")
                /\ messages[2].content = StrContent("Hi")) =>
                   input_data.content = "\n\nHi"
            /\ (/\ Len(messages) = 2
                /\ messages[1].content = ListContent(<<>>)
                /\ messages[2].content.kind = "list"
                /\ Len(messages[2].content.items) = 3) =>
                   input_data.content = "b a"

\* A list content without text, then a string content.
C23_Witness ==
    /\ pc = "read"
    /\ Len(input_data.messages[1]) = 2
    /\ input_data.messages[1][1].role = "assistant"
    /\ input_data.messages[1][1].content = ListContent(<<>>)
    /\ input_data.messages[1][2].content = StrContent("Hi")
    /\ input_data.content = "Hi"

\* Item i of the array is an object with role and content and a valid role.
C24_ValidItem(item) ==
    /\ item.type = "dict"
    /\ item.role.t # "absent"
    /\ item.content.kind # "absent"
    /\ item.role.t = "str"
    /\ item.role.v \in ValidRoles

\* C24 (as claimed): parse_messages returns the messages, as many and in the
\* order of the array, only for a non-empty array of valid items; otherwise
\* it raises a ValueError that names the index of the first offending item
\* (or the non-array or empty-array condition) and returns nothing.
C24_AllOrNothing ==
    LET valid == /\ data.kind = "list"
                 /\ data.items # <<>>
                 /\ \A i \in 1..Len(data.items) : C24_ValidItem(data.items[i])
    IN  /\ pc = "read" =>
               /\ valid
               /\ Len(input_data.messages[1]) = Len(data.items)
               /\ \A i \in 1..Len(data.items) :
                      /\ input_data.messages[1][i].role = data.items[i].role.v
                      /\ input_data.messages[1][i].content
                             = data.items[i].content
        /\ pc = "raised" =>
               /\ ~valid
               /\ input_data = None
               /\ raised[1].type = "ValueError"
               /\ data.kind = "list" /\ data.items # <<>> =>
                      \E i \in 1..Len(data.items) :
                          /\ ~C24_ValidItem(data.items[i])
                          /\ \A j \in 1..(i - 1) : C24_ValidItem(data.items[j])
                          /\ raised[1].message \in
                                 { "Message " \o NatToStr(i - 1)
                                       \o " must be an object in messages.json, got "
                                       \o data.items[i].type,
                                   "Message " \o NatToStr(i - 1)
                                       \o " missing required field 'role' in messages.json",
                                   "Message " \o NatToStr(i - 1)
                                       \o " missing required field 'content' in messages.json",
                                   "Message " \o NatToStr(i - 1)
                                       \o " in messages.json: Invalid message role: "
                                       \o data.items[i].role.v
                                       \o ". Valid roles: assistant, system, tool, user" }

====
